---- MODULE Spec2Model ----
(***************************************************************************)
(* Partition planning and execution engine of linexin-installer            *)
(* (installation_template_widget.py): the worker thread                    *)
(* _split_and_format_partition_thread, the disk it mutates through         *)
(* external commands, and the hand-off to the disk utility widget.         *)
(***************************************************************************)
EXTENDS Integers, Sequences, FiniteSets, TLC

\* ------------------------------------------------------------------------
\* Bounds of the model
\* ------------------------------------------------------------------------
\* Number of slots of a partition table.
MaxPart == 4
\* How many sectors below each size threshold the target sizes reach.
SizeSlack == 1

\* ------------------------------------------------------------------------
\* Program constants
\* ------------------------------------------------------------------------
EFI_SIZE_SECTORS == 1048576
SECTOR_TOLERANCE == 8192
MIN_ROOT_SECTORS == 1000000
WHOLEDISK_START == 2048
GPT_OVERHEAD == 34

\* 500 MiB in sectors of 512 bytes (2048 sectors per MiB).
MiB500 == 500 * 2048
\* 25 GiB in sectors of 512 bytes.
GiB25 == 25 * 2097152

\* ------------------------------------------------------------------------
\* Device names: sequences of one-character strings
\* ------------------------------------------------------------------------
DigitChars == <<"0", "1", "2", "3", "4", "5", "6", "7", "8", "9">>

IsDigit(c) == \E i \in 1..Len(DigitChars) : DigitChars[i] = c

DigitVal(c) == (CHOOSE i \in 1..Len(DigitChars) : DigitChars[i] = c) - 1

\* str(n) for the partition numbers of the model
Str(n) ==
    IF n < 10 THEN <<DigitChars[n + 1]>>
    ELSE <<DigitChars[(n \div 10) + 1], DigitChars[(n % 10) + 1]>>

\* int(s) of a non-empty string of digits
RECURSIVE ToInt(_)
ToInt(s) ==
    IF Len(s) = 0 THEN 0
    ELSE 10 * ToInt(SubSeq(s, 1, Len(s) - 1)) + DigitVal(s[Len(s)])

\* re.search(r'(\d+)$', s): the longest suffix of digits, <<>> when no match
RECURSIVE TrailingDigits(_)
TrailingDigits(s) ==
    IF Len(s) = 0 \/ ~IsDigit(s[Len(s)]) THEN <<>>
    ELSE TrailingDigits(SubSeq(s, 1, Len(s) - 1)) \o <<s[Len(s)]>>

Sda == <<"s", "d", "a">>
Nvme == <<"n", "v", "m", "e", "0", "n", "1">>
Disks == {Sda, Nvme}

\* The kernel's name of partition n of a disk: sda1, nvme0n1p1
NodeName(disk, n) ==
    IF IsDigit(disk[Len(disk)]) THEN disk \o <<"p">> \o Str(n)
    ELSE disk \o Str(n)

\* Python's None for a device node
None == <<>>

\* 'device' of a free-space target
UnallocatedSpace == <<"Unallocated Space">>

\* ------------------------------------------------------------------------
\* Targets the inventory offers (_detect_partitions)
\* ------------------------------------------------------------------------
\* Sectors a whole disk loses to the table on UEFI: 2048 + 34
WholeDiskOverhead == WHOLEDISK_START + GPT_OVERHEAD

\* Sizes around the plan builder's floor, around 500 MiB, and a usual one.
Sizes(overhead) ==
    {EFI_SIZE_SECTORS + MIN_ROOT_SECTORS + overhead - d : d \in 0..SizeSlack}
    \cup {EFI_SIZE_SECTORS + MiB500 + overhead - d : d \in 0..SizeSlack}
    \cup {GiB25}

\* Start sectors of partitions and free-space regions.
Starts == {2048, 10240}

\* Distance of a small partition lying right before the chosen region.
NeighbourGap == 4096

TargetNums == {1, 2}

WholeDiskTargets ==
    {[type |-> "wholedisk", device |-> d, parent_disk |-> d,
      start_sector |-> WHOLEDISK_START, size_sectors |-> s] :
        d \in Disks, s \in Sizes(WholeDiskOverhead)}

PartitionTargets ==
    {[type |-> "partition", device |-> NodeName(dn[1], dn[2]),
      parent_disk |-> dn[1], start_sector |-> st, size_sectors |-> s] :
        dn \in Disks \X TargetNums, st \in Starts, s \in Sizes(0)}

FreeSpaceTargets ==
    {[type |-> "freespace", device |-> UnallocatedSpace, parent_disk |-> d,
      start_sector |-> st, size_sectors |-> s] :
        d \in Disks, st \in Starts, s \in Sizes(0)}

Targets == WholeDiskTargets \cup PartitionTargets \cup FreeSpaceTargets

\* ------------------------------------------------------------------------
\* The disk's partition table
\* ------------------------------------------------------------------------
Slots == 1..MaxPart

NoEntry == [used |-> FALSE, start |-> 0, created |-> FALSE]

Entry(start, created) == [used |-> TRUE, start |-> start, created |-> created]

EmptyTable == [n \in Slots |-> NoEntry]

\* Tables a target can be found on: a whole disk has no partition; an
\* existing partition has its own entry; a small partition may lie right
\* before the chosen partition or free-space region.
TablesOf(t) ==
    LET own == IF t.type = "partition"
               THEN {ToInt(TrailingDigits(t.device))} ELSE {}
        base == [n \in Slots |->
                    IF n \in own THEN Entry(t.start_sector, FALSE) ELSE NoEntry]
    IN  IF t.type = "wholedisk" THEN {EmptyTable}
        ELSE {base} \cup
             {[base EXCEPT ![n] = Entry(t.start_sector - NeighbourGap, FALSE)] :
                 n \in {m \in 1..3 : m \notin own
                                     /\ t.start_sector - NeighbourGap >= 2048}}

VARIABLES
    firmware,                 \* the marker /sys/firmware/efi on this host
    boot_mode,                \* the worker's local boot_mode
    selected_partition,       \* self.selected_partition
    table,                    \* the partition table of the parent disk
    pc,                       \* position of the worker thread
    parent_disk, target_device, start_sector,
    total_sectors_available, item_type,    \* locals of the worker
    sfdisk_script,            \* the script handed to sfdisk --append
    partitions,               \* the re-read table (sfdisk -l -J)
    new_efi_device, new_root_device,
    cmds,                     \* external commands issued so far, in order
    partition_config,         \* disk_utility_widget.partition_config
    selected_disk,            \* disk_utility_widget.selected_disk
    outcome,                  \* completion dispatched to the UI thread
    error_msg,                \* str(e) handed to _finish_error
    progress_dialog,          \* self.progress_dialog: the dialog shown last
    dialogs,                  \* the progress dialogs created so far
    workers,                  \* how many worker threads are at each section
    idle,                     \* callbacks queued with GLib.idle_add
    emitted,                  \* 'continue-to-next-page' emissions
    error_shown,              \* error dialogs presented
    inv_pc,                   \* position inside _detect_partitions
    self_partitions,          \* self.partitions: the targets offered
    parent_disks,             \* the set parent_disks of _detect_partitions
    lsblk,                    \* what the lsblk call returned
    parted,                   \* what 'parted print free' returned, per disk
    log,                      \* lines written to the debug log
    btn_proceed,              \* whether the Continue button is sensitive
    confirmed,                \* the selection when Continue was clicked
    state,                    \* InstallationWidget.state
    installation_steps,       \* the steps of the run: critical or not
    should_cancel,            \* InstallationWidget.should_cancel
    run_pc,                   \* where _run_installation is
    run_i,                    \* its loop index i, from 1
    returncode,               \* process.returncode of the step, once it exited
    run_idle,                 \* the runner's callbacks given to GLib.idle_add
    output_queue,             \* lines put on output_queue, by step and kind
    started,                  \* the steps for which Popen was called, in order
    cancel_dialog,            \* the confirmation dialog is open
    cancel_while_running      \* 'stop' was answered while state was RUNNING

vars == <<firmware, boot_mode, selected_partition, table, pc, parent_disk, target_device,
          start_sector, total_sectors_available, item_type, sfdisk_script,
          partitions, new_efi_device, new_root_device, cmds, partition_config,
          selected_disk, outcome, error_msg, progress_dialog, dialogs, workers,
          idle, emitted, error_shown, inv_pc, self_partitions, parent_disks,
          lsblk, parted, log, btn_proceed, confirmed,
          state, installation_steps, should_cancel, run_pc, run_i, returncode,
          run_idle, output_queue, started, cancel_dialog, cancel_while_running>>


\* The UI thread's side: dialogs, worker threads, the idle queue.
ui == <<progress_dialog, dialogs, workers, idle, emitted, error_shown>>

\* The inventory's side: _detect_partitions and what it was given.
inventory == <<inv_pc, self_partitions, parent_disks, lsblk, parted, log>>

\* The page's side: the Continue button and what was confirmed with it.
selection == <<btn_proceed, confirmed>>

\* The installation runner (InstallationWidget) and its worker thread.
runner == <<state, installation_steps, should_cancel, run_pc, run_i, returncode,
            run_idle, output_queue, started, cancel_dialog, cancel_while_running>>

\* What one run of the worker never writes.
host == <<firmware, selected_partition, ui, inventory, selection, runner>>
locals == <<parent_disk, target_device, start_sector,
            total_sectors_available, item_type>>
ident == <<partitions, new_efi_device, new_root_device>>
widget == <<partition_config, selected_disk>>
result == <<outcome, error_msg>>

\* No lsblk call has returned yet.
NoProcess == [status |-> "none", blockdevices |-> <<>>]

\* The inventory before _detect_partitions has run: self.partitions = []
InventoryAtRest ==
    /\ inv_pc = "init"
    /\ self_partitions = <<>>
    /\ parent_disks = {}
    /\ lsblk = NoProcess
    /\ parted = <<>>
    /\ log = <<>>

\* self.btn_proceed.set_sensitive(False); nothing confirmed yet
SelectionAtRest ==
    /\ btn_proceed = FALSE
    /\ confirmed = None

\* InstallationWidget.__init__: IDLE, no steps, no thread
RunnerAtRest ==
    /\ state = "idle"
    /\ installation_steps = <<>>
    /\ should_cancel = FALSE
    /\ run_pc = "none"
    /\ run_i = 0
    /\ returncode = "none"
    /\ run_idle = <<>>
    /\ output_queue = <<>>
    /\ started = <<>>
    /\ cancel_dialog = FALSE
    /\ cancel_while_running = FALSE

\* ------------------------------------------------------------------------
\* External commands and error messages
\* ------------------------------------------------------------------------
\* One external command: the executor step it belongs to, the tool, the
\* argument that tells its object, and whether it exited with status 0.
Cmd(step, name, arg, ok) == [step |-> step, name |-> name, arg |-> arg, ok |-> ok]

\* str(e) of the exception the worker hands to _finish_error: the literal
\* text, the command line a CalledProcessError quotes, and whether the
\* tool's stderr is part of the text.
NoMsg == [text |-> "", cmd |-> "", stderr |-> FALSE]

\* subprocess.run(..., check=True) raising CalledProcessError:
\* "Command '[...]' returned non-zero exit status N."
MsgCalledProcessError(name) ==
    [text |-> "Command returned non-zero exit status", cmd |-> name, stderr |-> FALSE]

MsgTooSmall ==
    [text |-> "Selected space is too small for EFI + Root.", cmd |-> "", stderr |-> FALSE]

MsgCreationFailed ==
    [text |-> "Partition creation failed: ", cmd |-> "", stderr |-> TRUE]

MsgJsonDecode ==
    [text |-> "Expecting value: line 1 column 1 (char 0)", cmd |-> "", stderr |-> FALSE]

MsgDetectionUefi ==
    [text |-> "Detection failed. EFI: , Root: ", cmd |-> "", stderr |-> FALSE]

MsgDetectionLegacy ==
    [text |-> "Detection failed for Root partition.", cmd |-> "", stderr |-> FALSE]

MsgCollaborator ==
    [text |-> "collaborator exception", cmd |-> "", stderr |-> FALSE]

\* except Exception as e: GLib.idle_add(self._finish_error, str(e))
Raise(msg) ==
    /\ pc' = "error"
    /\ outcome' = "error"
    /\ error_msg' = msg

\* ------------------------------------------------------------------------
\* Plan builder (STEP C: CREATION)
\* ------------------------------------------------------------------------
Step(start, size, type) == [start |-> start, size |-> size, type |-> type]

\* Mutant of RootSizeSectors: the whole disk's overhead is not subtracted.
RootSizeNoOverhead(total, type) == total - EFI_SIZE_SECTORS

\* root_size_sectors on UEFI
RootSizeSectors(total, type) ==
    IF type = "wholedisk"
    THEN total - EFI_SIZE_SECTORS - WHOLEDISK_START - GPT_OVERHEAD
    ELSE total - EFI_SIZE_SECTORS

\* Mutant of TooSmall: a zero of the floor is dropped.
TooSmallTypo(root_size) == root_size < 100000

\* the safety check that raises "Selected space is too small"
TooSmall(root_size) == root_size < MIN_ROOT_SECTORS

UefiScript(start, root_size) ==
    <<Step(start, EFI_SIZE_SECTORS, "U"),
      Step(start + EFI_SIZE_SECTORS, root_size, "L")>>

\* Mutant of LegacySize: the offset is subtracted for every target type.
LegacySizeAlwaysOffset(total, type) == total - WHOLEDISK_START

\* Mutant of LegacySize: the whole disk's start offset is not subtracted.
LegacySizeFull(total, type) == total

\* current_size on Legacy
LegacySize(total, type) ==
    IF type = "wholedisk" THEN total - WHOLEDISK_START ELSE total

LegacyScript(start, size) == <<Step(start, size, "L")>>

\* ------------------------------------------------------------------------
\* Identification (STEP C: IDENTIFICATION)
\* ------------------------------------------------------------------------
Abs(x) == IF x < 0 THEN -x ELSE x

\* Mutant of WithinTolerance: the bound is inclusive.
WithinToleranceInclusive(p_start, expected) ==
    Abs(p_start - expected) <= SECTOR_TOLERANCE

\* abs(p_start - expected) < SECTOR_TOLERANCE
WithinTolerance(p_start, expected) == Abs(p_start - expected) < SECTOR_TOLERANCE

\* sfdisk -l -J: the used entries in the order of their partition numbers
RECURSIVE ListFrom(_, _, _)
ListFrom(disk, tbl, n) ==
    IF n > MaxPart THEN <<>>
    ELSE (IF tbl[n].used
          THEN <<[node |-> NodeName(disk, n), start |-> tbl[n].start]>>
          ELSE <<>>) \o ListFrom(disk, tbl, n + 1)

Listing(disk, tbl) == ListFrom(disk, tbl, 1)

\* The loop "for p in partitions": every entry within tolerance of the
\* expected start overwrites the device found so far.
RECURSIVE Scan(_, _, _)
Scan(parts, expected, found) ==
    IF Len(parts) = 0 THEN found
    ELSE Scan(Tail(parts), expected,
              IF Head(parts).node # None /\ WithinTolerance(Head(parts).start, expected)
              THEN Head(parts).node ELSE found)

\* Mutant of ExpectedRoot: the ROOT role is expected 2 MiB after the start.
ExpectedRootClose(start) == start + 4096

\* expected_root = start_sector + EFI_SIZE_SECTORS
ExpectedRoot(start) == start + EFI_SIZE_SECTORS

\* ''.join(filter(str.isdigit, os.path.basename(node)))
RECURSIVE DigitsOf(_)
DigitsOf(s) ==
    IF Len(s) = 0 THEN <<>>
    ELSE (IF IsDigit(Head(s)) THEN <<Head(s)>> ELSE <<>>) \o DigitsOf(Tail(s))

\* ------------------------------------------------------------------------
\* Configuration (STEP E: CONFIG UPDATE)
\* ------------------------------------------------------------------------
Mount(mountpoint, bootable, filesystem) ==
    [mountpoint |-> mountpoint, bootable |-> bootable, filesystem |-> filesystem]

UefiConfig(efi, root) ==
    [d \in {efi, root} |->
        IF d = root THEN Mount("/", FALSE, "ext4") ELSE Mount("/boot", TRUE, "vfat")]

\* Mutant of LegacyConfig: the root partition is not marked bootable.
LegacyConfigNotBootable(root) == [d \in {root} |-> Mount("/", FALSE, "ext4")]

LegacyConfig(root) == [d \in {root} |-> Mount("/", TRUE, "ext4")]

\* A mapping left in the disk utility widget by earlier use.
PreviousConfig == [d \in {<<"o", "l", "d">>} |-> Mount("/home", FALSE, "ext4")]

\* ------------------------------------------------------------------------
\* The environment's side of the commands
\* ------------------------------------------------------------------------
\* Offsets between a requested start and the start the re-read table shows.
Jitters == {0, 8191, 0 - 8191, 8192, 8193, 0 - 8193}

FreeSlots(tbl) == {n \in Slots : ~tbl[n].used}

FirstFree(tbl) == CHOOSE n \in FreeSlots(tbl) : \A m \in FreeSlots(tbl) : n <= m

\* sfdisk --append: each step of the script takes the first free slot.
RECURSIVE Appended(_, _, _)
Appended(tbl, script, js) ==
    IF Len(script) = 0 THEN tbl
    ELSE Appended([tbl EXCEPT ![FirstFree(tbl)] =
                        Entry(Head(script).start + Head(js), TRUE)],
                  Tail(script), Tail(js))

\* What os.path.exists('/sys/firmware/efi') does on a host.
Markers == {"present", "absent", "raises"}

\* Mutant of DetectBootMode: a marker that cannot be read counts as UEFI.
DetectBootModeUnsafe(marker) == IF marker = "absent" THEN "legacy" ELSE "uefi"

\* _detect_boot_mode
DetectBootMode(marker) == IF marker = "present" THEN "uefi" ELSE "legacy"

Init ==
    /\ firmware \in Markers
    /\ boot_mode = ""
    /\ selected_partition \in Targets
    /\ table \in TablesOf(selected_partition)
    /\ pc = "init"
    /\ parent_disk = None
    /\ target_device = None
    /\ start_sector = 0
    /\ total_sectors_available = 0
    /\ item_type = ""
    /\ sfdisk_script = <<>>
    /\ partitions = <<>>
    /\ new_efi_device = None
    /\ new_root_device = None
    /\ cmds = <<>>
    /\ partition_config = PreviousConfig
    /\ selected_disk = None
    /\ outcome = "none"
    /\ error_msg = NoMsg
    /\ progress_dialog = 0
    /\ dialogs = <<>>
    /\ workers = <<>>
    /\ idle = <<>>
    /\ emitted = 0
    /\ error_shown = 0
    /\ InventoryAtRest
    /\ SelectionAtRest
    /\ RunnerAtRest


\* ------------------------------------------------------------------------
\* The worker thread, _split_and_format_partition_thread
\* ------------------------------------------------------------------------
\* boot mode and the five reads of self.selected_partition
Start ==
    /\ pc = "init"
    /\ boot_mode' = DetectBootMode(firmware)
    /\ parent_disk' = selected_partition.parent_disk
    /\ target_device' = selected_partition.device
    /\ start_sector' = selected_partition.start_sector
    /\ total_sectors_available' = selected_partition.size_sectors
    /\ item_type' = selected_partition.type
    /\ pc' = "label"
    /\ UNCHANGED <<host, table, sfdisk_script, ident, cmds, widget, result>>

LabelType(mode) == IF mode = "uefi" THEN <<"gpt">> ELSE <<"msdos">>

\* Mutant of AfterLabel: STEP B is never entered.
AfterLabelNoCleanup(type) == "create"

\* Mutant of AfterLabel: everything but a whole disk is cleaned up.
AfterLabelNotWholeDisk(type) == IF type # "wholedisk" THEN "umount" ELSE "create"

\* STEP B is entered for an existing partition only
AfterLabel(type) == IF type = "partition" THEN "umount" ELSE "create"

\* STEP A: parted mklabel (check=True), partprobe, start_sector = 2048
Label ==
    /\ pc = "label"
    /\ IF item_type = "wholedisk"
       THEN \E ok \in BOOLEAN :
              IF ok
              THEN /\ cmds' = cmds \o <<Cmd("LABEL", "mklabel", LabelType(boot_mode), TRUE),
                                        Cmd("LABEL", "partprobe", parent_disk, TRUE)>>
                   /\ table' = EmptyTable
                   /\ start_sector' = WHOLEDISK_START
                   /\ pc' = AfterLabel(item_type)
                   /\ UNCHANGED result
              ELSE /\ cmds' = cmds \o <<Cmd("LABEL", "mklabel", LabelType(boot_mode), FALSE)>>
                   /\ Raise(MsgCalledProcessError("mklabel"))
                   /\ UNCHANGED <<table, start_sector>>
       ELSE /\ pc' = AfterLabel(item_type)
            /\ UNCHANGED <<cmds, table, start_sector, result>>
    /\ UNCHANGED <<host, boot_mode, parent_disk, target_device, total_sectors_available,
                   item_type, sfdisk_script, ident, widget>>

\* Mutant of Ignored: the command is run with check=True.
IgnoredRaising(at, step, name, arg, next) ==
    /\ pc = at
    /\ \E ok \in BOOLEAN :
          /\ cmds' = Append(cmds, Cmd(step, name, arg, ok))
          /\ IF ok THEN pc' = next /\ UNCHANGED result
             ELSE Raise(MsgCalledProcessError(name))
    /\ UNCHANGED <<host, boot_mode, table, locals, sfdisk_script, ident, widget>>

\* A command whose exit status the worker never looks at.
Ignored(at, step, name, arg, next) ==
    /\ pc = at
    /\ \E ok \in BOOLEAN : cmds' = Append(cmds, Cmd(step, name, arg, ok))
    /\ pc' = next
    /\ UNCHANGED <<host, boot_mode, table, locals, sfdisk_script, ident, widget, result>>

\* STEP B: umount of the partition
Unmount == Ignored("umount", "CLEAN", "umount", target_device, "umount_all")

\* STEP B: umount of f"{target_device}*"
UnmountAll ==
    Ignored("umount_all", "CLEAN", "umount", target_device \o <<"*">>, "swapoff")

\* STEP B: swapoff -a
Swapoff == Ignored("swapoff", "CLEAN", "swapoff", <<"-a">>, "delete")

\* STEP B: sfdisk --delete of the trailing number of the device (check=True)
Delete ==
    /\ pc = "delete"
    /\ LET part_num == TrailingDigits(target_device)
       IN  IF part_num # <<>>
           THEN \E ok \in BOOLEAN :
                  IF ok
                  THEN /\ table[ToInt(part_num)].used
                       /\ cmds' = cmds \o <<Cmd("CLEAN", "delete", part_num, TRUE),
                                            Cmd("CLEAN", "partprobe", parent_disk, TRUE)>>
                       /\ table' = [table EXCEPT ![ToInt(part_num)] = NoEntry]
                       /\ pc' = "create"
                       /\ UNCHANGED result
                  ELSE /\ cmds' = Append(cmds, Cmd("CLEAN", "delete", part_num, FALSE))
                       /\ Raise(MsgCalledProcessError("delete"))
                       /\ UNCHANGED table
           ELSE /\ pc' = "create"
                /\ UNCHANGED <<cmds, table, result>>
    /\ UNCHANGED <<host, boot_mode, locals, sfdisk_script, ident, widget>>

\* STEP C: the sfdisk script, or "Selected space is too small"
BuildScript ==
    /\ pc = "create"
    /\ IF boot_mode = "uefi"
       THEN LET root_size_sectors == RootSizeSectors(total_sectors_available, item_type)
            IN  IF TooSmall(root_size_sectors)
                THEN /\ Raise(MsgTooSmall)
                     /\ UNCHANGED sfdisk_script
                ELSE /\ sfdisk_script' = UefiScript(start_sector, root_size_sectors)
                     /\ pc' = "append"
                     /\ UNCHANGED result
       ELSE /\ sfdisk_script' =
                 LegacyScript(start_sector, LegacySize(total_sectors_available, item_type))
            /\ pc' = "append"
            /\ UNCHANGED result
    /\ UNCHANGED <<host, boot_mode, table, locals, ident, cmds, widget>>

\* Mutant of AfterCreate: the table is re-read right after the write.
AfterCreateNoSettle == "identify"

\* What follows a successful append: Sync
AfterCreate == "settle"

\* STEP C: sfdisk --append --force; a non-zero exit raises
\* "Partition creation failed: {stderr}"
AppendPartitions ==
    /\ pc = "append"
    /\ \/ /\ Cardinality(FreeSlots(table)) >= Len(sfdisk_script)
          /\ \E js \in [1..Len(sfdisk_script) -> Jitters] :
                /\ \A i \in 1..Len(sfdisk_script) : sfdisk_script[i].start + js[i] >= 0
                /\ table' = Appended(table, sfdisk_script, js)
          /\ cmds' = Append(cmds, Cmd("CREATE", "append", parent_disk, TRUE))
          /\ pc' = AfterCreate
          /\ UNCHANGED result
       \/ /\ cmds' = Append(cmds, Cmd("CREATE", "append", parent_disk, FALSE))
          /\ Raise(MsgCreationFailed)
          /\ UNCHANGED table
    /\ UNCHANGED <<host, boot_mode, locals, sfdisk_script, ident, widget>>

\* Sync: partprobe, udevadm settle, sleep
Settle ==
    /\ pc = "settle"
    /\ cmds' = cmds \o <<Cmd("SETTLE", "partprobe", parent_disk, TRUE),
                         Cmd("SETTLE", "settle", <<>>, TRUE)>>
    /\ pc' = "identify"
    /\ UNCHANGED <<host, boot_mode, table, locals, sfdisk_script, ident, widget, result>>

\* the device found for the EFI role
FoundEfi(mode, parts, start) ==
    IF mode = "uefi" THEN Scan(parts, start, None) ELSE None

\* the device found for the ROOT role
FoundRoot(mode, parts, start) ==
    IF mode = "uefi" THEN Scan(parts, ExpectedRoot(start), None)
    ELSE Scan(parts, start, None)

\* STEP C: IDENTIFICATION: sfdisk -l -J, json.loads, the matching loops
Identify ==
    /\ pc = "identify"
    /\ \/ /\ cmds' = Append(cmds, Cmd("IDENTIFY", "list", parent_disk, TRUE))
          /\ partitions' = Listing(parent_disk, table)
          /\ new_efi_device' = FoundEfi(boot_mode, partitions', start_sector)
          /\ new_root_device' = FoundRoot(boot_mode, partitions', start_sector)
          /\ pc' = IF boot_mode # "uefi" /\ new_root_device' # None
                   THEN "bootflag" ELSE "verify"
          /\ UNCHANGED result
       \/ /\ cmds' = Append(cmds, Cmd("IDENTIFY", "list", parent_disk, FALSE))
          /\ Raise(MsgJsonDecode)
          /\ UNCHANGED ident
    /\ UNCHANGED <<host, boot_mode, table, locals, sfdisk_script, widget>>

\* Mutant of Checked: check=True is left out.
CheckedNotRaising(at, step, name, arg, next) ==
    /\ pc = at
    /\ \E ok \in BOOLEAN : cmds' = Append(cmds, Cmd(step, name, arg, ok))
    /\ pc' = next
    /\ UNCHANGED <<host, boot_mode, table, locals, sfdisk_script, ident, widget, result>>

\* A command run with check=True: a non-zero exit raises CalledProcessError.
Checked(at, step, name, arg, next) ==
    /\ pc = at
    /\ \E ok \in BOOLEAN :
          /\ cmds' = Append(cmds, Cmd(step, name, arg, ok))
          /\ IF ok THEN pc' = next /\ UNCHANGED result
             ELSE Raise(MsgCalledProcessError(name))
    /\ UNCHANGED <<host, boot_mode, table, locals, sfdisk_script, ident, widget>>

\* Legacy: parted set <digits of the node's name> boot on (check=True)
BootFlag ==
    Checked("bootflag", "IDENTIFY", "set_boot", DigitsOf(new_root_device), "verify")

\* Mutant of DetectionFailed: UEFI fails only when both roles are missing.
DetectionFailedBoth(mode, efi, root) ==
    \/ mode = "uefi" /\ (efi = None /\ root = None)
    \/ mode = "legacy" /\ root = None

\* the condition of the two "Detection failed" raises
DetectionFailed(mode, efi, root) ==
    \/ mode = "uefi" /\ (efi = None \/ root = None)
    \/ mode = "legacy" /\ root = None

\* Mutant of AfterVerify: the EFI format is issued in both boot modes.
AfterVerifyAlwaysEfi(mode) == "format_efi"

\* STEP D: the EFI format comes first, on UEFI only
AfterVerify(mode) == IF mode = "uefi" THEN "format_efi" ELSE "format_root"

\* Verification: "Detection failed"
Verify ==
    /\ pc = "verify"
    /\ IF DetectionFailed(boot_mode, new_efi_device, new_root_device)
       THEN Raise(IF boot_mode = "uefi" THEN MsgDetectionUefi ELSE MsgDetectionLegacy)
       ELSE /\ pc' = AfterVerify(boot_mode)
            /\ UNCHANGED result
    /\ UNCHANGED <<host, boot_mode, table, locals, sfdisk_script, ident, cmds, widget>>

\* STEP D: mkfs.vfat -F32 (check=True)
FormatEfi == Checked("format_efi", "FORMAT", "mkfs.vfat", new_efi_device, "format_root")

\* STEP D: mkfs.ext4 -F (check=True)
FormatRoot == Checked("format_root", "FORMAT", "mkfs.ext4", new_root_device, "final_settle")

\* Final Settle: udevadm settle, sleep
FinalSettle ==
    /\ pc = "final_settle"
    /\ cmds' = Append(cmds, Cmd("CONFIGURE", "settle", <<>>, TRUE))
    /\ pc' = "configure"
    /\ UNCHANGED <<host, boot_mode, table, locals, sfdisk_script, ident, widget, result>>

\* STEP E: CONFIG UPDATE
Configure ==
    /\ pc = "configure"
    /\ partition_config' =
          IF boot_mode = "uefi" THEN UefiConfig(new_efi_device, new_root_device)
          ELSE LegacyConfig(new_root_device)
    /\ selected_disk' = parent_disk
    /\ pc' = "save"
    /\ UNCHANGED <<host, boot_mode, table, locals, sfdisk_script, ident, cmds, result>>

\* Mutant of Collaborator: an exception of the collaborator is swallowed.
CollaboratorSwallowed(at, name, next) ==
    /\ pc = at
    /\ \E ok \in BOOLEAN : cmds' = Append(cmds, Cmd("CONFIGURE", name, <<>>, ok))
    /\ pc' = next
    /\ UNCHANGED <<host, boot_mode, table, locals, sfdisk_script, ident, widget, result>>

\* A call of a collaborator of the disk utility widget, which may raise.
Collaborator(at, name, next) ==
    /\ pc = at
    /\ \/ /\ cmds' = Append(cmds, Cmd("CONFIGURE", name, <<>>, TRUE))
          /\ pc' = next
          /\ UNCHANGED result
       \/ /\ cmds' = Append(cmds, Cmd("CONFIGURE", name, <<>>, FALSE))
          /\ Raise(MsgCollaborator)
    /\ UNCHANGED <<host, boot_mode, table, locals, sfdisk_script, ident, widget>>

SaveConfig == Collaborator("save", "_save_partition_config", "fstab")

GenerateFstab == Collaborator("fstab", "_generate_and_apply_fstab", "finish")

\* GLib.idle_add(self._finish_success)
Finish ==
    /\ pc = "finish"
    /\ outcome' = "success"
    /\ pc' = "done"
    /\ UNCHANGED <<host, boot_mode, table, locals, sfdisk_script, ident, cmds, widget, error_msg>>

Next ==
    \/ Start
    \/ Label
    \/ Unmount
    \/ UnmountAll
    \/ Swapoff
    \/ Delete
    \/ BuildScript
    \/ AppendPartitions
    \/ Settle
    \/ Identify
    \/ BootFlag
    \/ Verify
    \/ FormatEfi
    \/ FormatRoot
    \/ FinalSettle
    \/ Configure
    \/ SaveConfig
    \/ GenerateFstab
    \/ Finish

Spec == Init /\ [][Next]_vars

\* The worker is a thread of its own and every external command returns:
\* a step that can be taken is taken.
SpecFair == Spec /\ WF_vars(Next)


\* ------------------------------------------------------------------------
\* Properties
\* ------------------------------------------------------------------------
Issued(name) == \E i \in DOMAIN cmds : cmds[i].name = name

Succeeded(name) == \E i \in DOMAIN cmds : cmds[i].name = name /\ cmds[i].ok

Failed(name) == \E i \in DOMAIN cmds : cmds[i].name = name /\ ~cmds[i].ok

WholeDisk == selected_partition.type = "wholedisk"

\* Start sector and size of the target, and where its region begins and ends.
TargetStart == IF WholeDisk THEN 2048 ELSE selected_partition.start_sector

TargetSize == selected_partition.size_sectors

RegionStart == IF WholeDisk THEN 0 ELSE selected_partition.start_sector

RegionEnd ==
    IF WholeDisk THEN selected_partition.size_sectors
    ELSE selected_partition.start_sector + selected_partition.size_sectors

\* C1: on UEFI, once the partition-append command is issued the script has
\* exactly two steps: EFI at the target's start with size 1,048,576 and type
\* U, then ROOT at start + 1,048,576 with size S - 1,048,576 - overhead and
\* type L, where overhead is 2048 + 34 for a whole disk (start 2048) and 0
\* for a partition or free-space region.
C1_UefiPlan ==
    (boot_mode = "uefi" /\ Issued("append")) =>
        sfdisk_script =
            <<[start |-> TargetStart, size |-> 1048576, type |-> "U"],
              [start |-> TargetStart + 1048576,
               size |-> TargetSize - 1048576 - (IF WholeDisk THEN 2048 + 34 ELSE 0),
               type |-> "L"]>>

C1_Witness ==
    /\ boot_mode = "uefi"
    /\ WholeDisk
    /\ Succeeded("append")
    /\ Len(sfdisk_script) = 2

\* Size left for ROOT on UEFI after the EFI reservation and the overhead.
TargetRoot == TargetSize - 1048576 - (IF WholeDisk THEN 2048 + 34 ELSE 0)

BeforeAppend == {"init", "label", "umount", "umount_all", "swapoff", "delete", "create"}

\* The floor of the ROOT step holds with f sectors: an issued append has a
\* ROOT step of at least f sectors, and a target leaving less than f sectors
\* for ROOT fails with "too small" before any append.
RootFloor(f) ==
    /\ (boot_mode = "uefi" /\ Issued("append")) =>
            Len(sfdisk_script) = 2 /\ sfdisk_script[2].size >= f
    /\ (boot_mode = "uefi" /\ TargetRoot < f) =>
            /\ ~Issued("append")
            /\ pc \in BeforeAppend \cup {"error"}
            /\ (pc = "error" /\ (\A i \in DOMAIN cmds : cmds[i].ok)) =>
                    error_msg = MsgTooSmall

\* C2 as claimed: on UEFI every issued append has a ROOT step of at least
\* 500 MiB (1,024,000 sectors), and every target leaving less than 500 MiB
\* for ROOT fails with InsufficientSpace without an append.
C2_Original == RootFloor(1024000)

\* C2 as amended: the floor is 1,000,000 sectors (about 488 MiB): on UEFI
\* every issued append has a ROOT step of at least 1,000,000 sectors, and
\* every target leaving less than 1,000,000 sectors for ROOT fails with
\* "Selected space is too small" and no append is issued.
C2_RootFloor == RootFloor(1000000)

C2_Witness ==
    /\ boot_mode = "uefi"
    /\ TargetRoot < 1000000
    /\ pc = "error"
    /\ error_msg = MsgTooSmall

\* C3: on Legacy, once the partition-append command is issued the script has
\* exactly one step, type L, at the target's start, whose size is the full
\* size_sectors for a partition or free-space region and size_sectors - 2048
\* for a whole disk (start 2048).
C3_LegacyPlan ==
    (boot_mode = "legacy" /\ Issued("append")) =>
        sfdisk_script =
            <<[start |-> TargetStart,
               size |-> IF WholeDisk THEN TargetSize - 2048 ELSE TargetSize,
               type |-> "L"]>>

C3_Witness ==
    /\ boot_mode = "legacy"
    /\ WholeDisk
    /\ Succeeded("append")
    /\ Len(sfdisk_script) = 1

\* C4: the steps written to the script do not overlap and lie inside the
\* chosen region: the first starts at or after the region's start, each next
\* one starts where the previous one ends, every step has a positive size,
\* and the last one ends at or before the region's end.
C4_StepsInsideRegion ==
    Issued("append") =>
        /\ Len(sfdisk_script) >= 1
        /\ sfdisk_script[1].start >= RegionStart
        /\ \A i \in DOMAIN sfdisk_script : sfdisk_script[i].size > 0
        /\ \A i \in 1..(Len(sfdisk_script) - 1) :
                sfdisk_script[i + 1].start =
                    sfdisk_script[i].start + sfdisk_script[i].size
        /\ LET last == sfdisk_script[Len(sfdisk_script)]
           IN  last.start + last.size <= RegionEnd

C4_Witness ==
    /\ Succeeded("append")
    /\ Len(sfdisk_script) = 2
    /\ WholeDisk
    /\ sfdisk_script[2].start + sfdisk_script[2].size = RegionEnd - 34

\* The entries of the re-read table within 8192 sectors of an expected start.
Near(expected) ==
    {i \in DOMAIN partitions :
        partitions[i].start - expected < 8192 /\ expected - partitions[i].start < 8192}

\* The node of the last such entry, None when there is none.
LastNear(expected) ==
    IF Near(expected) = {} THEN None
    ELSE partitions[CHOOSE i \in Near(expected) : \A j \in Near(expected) : j <= i].node

Identified == Succeeded("list")

\* C5: in IDENTIFY an entry matches an expected start exactly when its
\* absolute sector distance from it is below 8192 (8191 either way matches,
\* 8192 and 8193 do not): the device found for a role is the node of the
\* last entry within that distance of the role's expected start, and none
\* when no entry is.
C5_Tolerance ==
    Identified =>
        IF boot_mode = "uefi"
        THEN /\ new_efi_device = LastNear(TargetStart)
             /\ new_root_device = LastNear(TargetStart + 1048576)
        ELSE new_root_device = LastNear(TargetStart)

C5_Witness ==
    /\ Identified
    /\ boot_mode = "uefi"
    /\ new_efi_device # None
    /\ \E i \in DOMAIN partitions :
            /\ partitions[i].node = new_efi_device
            /\ partitions[i].start = TargetStart + 8191
    /\ new_root_device = None
    /\ \E i \in DOMAIN partitions :
            partitions[i].start = TargetStart + 1048576 - 8193

\* Some expected role has no entry within tolerance in the re-read table.
RoleUnmatched ==
    \/ Near(IF boot_mode = "uefi" THEN TargetStart + 1048576 ELSE TargetStart) = {}
    \/ boot_mode = "uefi" /\ Near(TargetStart) = {}

\* C6: when the re-read table has no entry within tolerance for an expected
\* role, the run goes no further than the verification, ends in ERROR with
\* a detection failure, and no mkfs command is issued.
C6_DetectionFailed ==
    (Identified /\ RoleUnmatched) =>
        /\ ~Issued("mkfs.vfat")
        /\ ~Issued("mkfs.ext4")
        /\ pc \in {"verify", "error"}
        /\ pc = "error" =>
              /\ outcome = "error"
              /\ error_msg = (IF boot_mode = "uefi" THEN MsgDetectionUefi
                              ELSE MsgDetectionLegacy)

C6_Witness ==
    /\ Identified
    /\ boot_mode = "uefi"
    /\ Near(TargetStart) # {}
    /\ Near(TargetStart + 1048576) = {}
    /\ pc = "error"


\* Position of an executor step in the order of the state machine.
StepRank(step) ==
    CASE step = "CLEAN" -> 1
      [] step = "LABEL" -> 2
      [] step = "CREATE" -> 3
      [] step = "SETTLE" -> 4
      [] step = "IDENTIFY" -> 5
      [] step = "FORMAT" -> 6
      [] step = "CONFIGURE" -> 7

\* Command `first` (successful when needOk) was issued before position j.
Before(first, needOk, j) ==
    \E i \in 1..(j - 1) : cmds[i].name = first /\ (needOk => cmds[i].ok)

\* C7: the commands of a run are issued in the order CLEAN, LABEL, CREATE,
\* SETTLE, IDENTIFY, FORMAT, CONFIGURE: the table write precedes the
\* re-enumeration (partprobe, then udevadm settle), the re-enumeration
\* precedes the table re-read, the re-read precedes the boot flag and every
\* mkfs, mkfs.ext4 precedes the collaborators, and success is dispatched
\* only after both collaborators returned.
C7_StepOrder ==
    /\ \A i, j \in DOMAIN cmds :
            i < j => StepRank(cmds[i].step) <= StepRank(cmds[j].step)
    /\ \A j \in DOMAIN cmds :
          /\ cmds[j].step = "SETTLE" => Before("append", TRUE, j)
          /\ (cmds[j].step = "SETTLE" /\ cmds[j].name = "settle") =>
                \E i \in 1..(j - 1) :
                    cmds[i].step = "SETTLE" /\ cmds[i].name = "partprobe"
          /\ cmds[j].name = "list" =>
                \E i \in 1..(j - 1) :
                    /\ cmds[i].step = "SETTLE" /\ cmds[i].name = "settle"
                    /\ Before("append", TRUE, i)
          /\ cmds[j].name \in {"set_boot", "mkfs.vfat", "mkfs.ext4"} =>
                Before("list", TRUE, j)
          /\ (cmds[j].name = "mkfs.ext4" /\ boot_mode = "uefi") =>
                Before("mkfs.vfat", TRUE, j)
          /\ cmds[j].name = "_save_partition_config" => Before("mkfs.ext4", TRUE, j)
          /\ cmds[j].name = "_generate_and_apply_fstab" =>
                Before("_save_partition_config", TRUE, j)
    /\ outcome = "success" => Succeeded("_generate_and_apply_fstab")

C7_Witness ==
    /\ outcome = "success"
    /\ boot_mode = "uefi"
    /\ selected_partition.type = "partition"
    /\ Succeeded("delete")
    /\ Succeeded("mkfs.vfat")

Fatal == {"mklabel", "delete", "append", "set_boot", "mkfs.vfat", "mkfs.ext4"}

\* C8: ERROR is absorbing: once a fatal command (mklabel, delete, append,
\* boot flag, mkfs.vfat, mkfs.ext4) has failed, it is the last command of
\* the run, the run is in ERROR with the error completion dispatched, and
\* the collaborator's partition_config and selected_disk are untouched.
C8_ErrorAbsorbing ==
    \A i \in DOMAIN cmds :
        (cmds[i].name \in Fatal /\ ~cmds[i].ok) =>
            /\ i = Len(cmds)
            /\ pc = "error"
            /\ outcome = "error"
            /\ partition_config = PreviousConfig
            /\ selected_disk = None

C8_Witness ==
    /\ Failed("mkfs.ext4")
    /\ Succeeded("mkfs.vfat")
    /\ pc = "error"

\* C9 as claimed: whenever a fatal command failed, the message handed to
\* the UI carries the failing tool's error text (stderr).
C9_MessageCarriesStderr ==
    (pc = "error" /\ cmds # <<>> /\ cmds[Len(cmds)].name \in Fatal
        /\ ~cmds[Len(cmds)].ok) => error_msg.stderr

BeforeDelete == {"init", "label", "umount", "umount_all", "swapoff", "delete"}

\* C10: a failed umount or swapoff is never the end of a run: the run of an
\* existing partition always goes on to the delete command; a failed delete
\* always ends the run in ERROR.
C10_CleanFailures ==
    /\ \A i \in DOMAIN cmds :
          (cmds[i].name \in {"umount", "swapoff"} /\ ~cmds[i].ok /\ i = Len(cmds)) =>
                pc \in {"umount_all", "swapoff", "delete"}
    /\ (selected_partition.type = "partition" /\ pc \notin BeforeDelete) =>
            Issued("delete")
    /\ Failed("delete") =>
            /\ pc = "error"
            /\ outcome = "error"
            /\ cmds[Len(cmds)].name = "delete"

C10_Witness ==
    /\ \A i \in 1..3 : i \in DOMAIN cmds /\ ~cmds[i].ok
    /\ Succeeded("delete")
    /\ Succeeded("append")


AfterLabelStep == pc \notin {"init", "label"}

\* C11: mklabel is issued exactly for a whole disk (gpt on UEFI, msdos on
\* Legacy), and umount, swapoff and delete exactly for an existing
\* partition; a free-space target gets none of them.
C11_LabelAndCleanByType ==
    /\ \A i \in DOMAIN cmds :
          /\ cmds[i].name = "mklabel" =>
                /\ selected_partition.type = "wholedisk"
                /\ cmds[i].arg = (IF boot_mode = "uefi" THEN <<"gpt">> ELSE <<"msdos">>)
          /\ cmds[i].name \in {"umount", "swapoff", "delete"} =>
                selected_partition.type = "partition"
    /\ (selected_partition.type = "wholedisk" /\ AfterLabelStep) => Issued("mklabel")
    /\ (selected_partition.type = "partition" /\ pc \notin BeforeDelete) =>
            Issued("umount") /\ Issued("swapoff") /\ Issued("delete")

C11_Witness ==
    /\ selected_partition.type = "freespace"
    /\ Succeeded("append")
    /\ \A i \in DOMAIN cmds : cmds[i].name \notin {"mklabel", "umount", "swapoff", "delete"}

\* The slots of the table whose node is the given device.
SlotsOf(node) == {n \in Slots : table[n].used /\ NodeName(parent_disk, n) = node}

\* C12 as claimed: on Legacy the boot flag command comes after the re-read
\* and before mkfs.ext4 and is given the partition number of the entry
\* matched as ROOT; on UEFI no boot flag command is issued.
C12_BootFlagOnRoot ==
    \A i \in DOMAIN cmds :
        /\ cmds[i].name = "set_boot" =>
              /\ boot_mode = "legacy"
              /\ Before("list", TRUE, i)
              /\ ToInt(cmds[i].arg) \in SlotsOf(new_root_device)
        /\ (cmds[i].name = "mkfs.ext4" /\ boot_mode = "legacy") =>
              Before("set_boot", TRUE, i)

AfterFormat == {"final_settle", "configure", "save", "fstab", "finish", "done"}

\* C13: mkfs.vfat is issued on UEFI only, on the device found for EFI;
\* mkfs.ext4 is issued on the device found for ROOT, on UEFI after a
\* successful mkfs.vfat; the run gets past FORMAT only when every planned
\* format succeeded.
C13_FormatPlannedRoles ==
    /\ \A i \in DOMAIN cmds :
          /\ cmds[i].name = "mkfs.vfat" =>
                /\ boot_mode = "uefi"
                /\ cmds[i].arg = LastNear(TargetStart)
                /\ cmds[i].arg # None
          /\ cmds[i].name = "mkfs.ext4" =>
                /\ cmds[i].arg = LastNear(IF boot_mode = "uefi"
                                          THEN TargetStart + 1048576 ELSE TargetStart)
                /\ cmds[i].arg # None
                /\ boot_mode = "uefi" => Before("mkfs.vfat", TRUE, i)
    /\ Cardinality({i \in DOMAIN cmds : cmds[i].name = "mkfs.vfat"}) <= 1
    /\ Cardinality({i \in DOMAIN cmds : cmds[i].name = "mkfs.ext4"}) <= 1
    /\ (pc \in AfterFormat \/ partition_config # PreviousConfig) =>
            /\ Succeeded("mkfs.ext4")
            /\ boot_mode = "uefi" => Succeeded("mkfs.vfat")

C13_Witness ==
    /\ boot_mode = "legacy"
    /\ pc = "configure"
    /\ Succeeded("mkfs.ext4")
    /\ ~Issued("mkfs.vfat")

\* The devices formatted in this run.
Formatted == {cmds[i].arg : i \in {j \in DOMAIN cmds : cmds[j].name \in {"mkfs.vfat", "mkfs.ext4"}}}

Configured == pc \in {"save", "fstab", "finish", "done"} \/ Issued("_save_partition_config")

\* C14: the emitted mapping replaces the previous one and holds exactly: on
\* UEFI the EFI node with /boot, bootable, vfat and the ROOT node with /,
\* not bootable, ext4; on Legacy the ROOT node alone with /, bootable, ext4;
\* its keys are the devices formatted in this run, and selected_disk is the
\* parent disk of the target.
C14_EmittedConfig ==
    Configured =>
        /\ DOMAIN partition_config = Formatted
        /\ DOMAIN partition_config =
              (IF boot_mode = "uefi" THEN {new_efi_device, new_root_device}
               ELSE {new_root_device})
        /\ partition_config[new_root_device] =
              [mountpoint |-> "/", bootable |-> (boot_mode # "uefi"), filesystem |-> "ext4"]
        /\ boot_mode = "uefi" =>
              /\ new_efi_device # new_root_device
              /\ partition_config[new_efi_device] =
                    [mountpoint |-> "/boot", bootable |-> TRUE, filesystem |-> "vfat"]
        /\ selected_disk = selected_partition.parent_disk

C14_Witness ==
    /\ Configured
    /\ boot_mode = "uefi"
    /\ Cardinality(DOMAIN partition_config) = 2
    /\ outcome = "success"

\* C15: partition_config and selected_disk are written, and the two
\* collaborators called, only after every planned format succeeded; a run
\* that ends in ERROR before that leaves both untouched.
C15_ConfigOnlyAfterFormat ==
    /\ (\/ partition_config # PreviousConfig
        \/ selected_disk # None
        \/ Issued("_save_partition_config")
        \/ Issued("_generate_and_apply_fstab")) =>
            /\ Succeeded("mkfs.ext4")
            /\ boot_mode = "uefi" => Succeeded("mkfs.vfat")
    /\ (pc = "error" /\ ~Issued("_save_partition_config")) =>
            /\ partition_config = PreviousConfig
            /\ selected_disk = None

C15_Witness ==
    /\ pc = "error"
    /\ Failed("mkfs.ext4")
    /\ partition_config = PreviousConfig


\* The boot mode the firmware marker stands for.
MarkerMode == IF firmware = "present" THEN "uefi" ELSE "legacy"

\* C21: from its first step on, the worker's boot mode is UEFI exactly when
\* the firmware marker exists and Legacy when it is absent or cannot be
\* read, and that one value decides the label type, the number of steps of
\* the script, the roles looked up, the formats issued and the emitted
\* mapping.
C21_BootModeOnce ==
    pc # "init" =>
        /\ boot_mode = MarkerMode
        /\ \A i \in DOMAIN cmds :
            /\ cmds[i].name = "mklabel" =>
                 cmds[i].arg = (IF MarkerMode = "uefi" THEN <<"gpt">> ELSE <<"msdos">>)
            /\ cmds[i].name = "mkfs.vfat" => MarkerMode = "uefi"
            /\ cmds[i].name = "set_boot" => MarkerMode = "legacy"
            /\ (cmds[i].name = "mkfs.ext4" /\ MarkerMode = "uefi") =>
                 Before("mkfs.vfat", TRUE, i)
        /\ Issued("append") =>
             Len(sfdisk_script) = (IF MarkerMode = "uefi" THEN 2 ELSE 1)
        /\ new_efi_device # None => MarkerMode = "uefi"
        /\ Configured =>
             /\ Cardinality(DOMAIN partition_config)
                    = (IF MarkerMode = "uefi" THEN 2 ELSE 1)
             /\ partition_config[new_root_device].bootable = (MarkerMode = "legacy")

C21_Witness ==
    /\ firmware = "raises"
    /\ pc = "done"
    /\ Succeeded("mklabel")
    /\ Succeeded("set_boot")
    /\ Cardinality(DOMAIN partition_config) = 1

\* The table entries this run's append wrote.
CreatedSlots == {n \in Slots : table[n].used /\ table[n].created}

\* C22 as claimed: every format command is given the node of an entry
\* written by this run's append, and the Legacy boot flag the number of
\* such an entry; an entry that was on the disk before is never formatted
\* or flagged.
C22_OnlyCreatedTouched ==
    \A i \in DOMAIN cmds :
        /\ cmds[i].name \in {"mkfs.vfat", "mkfs.ext4"} =>
             /\ SlotsOf(cmds[i].arg) # {}
             /\ SlotsOf(cmds[i].arg) \subseteq CreatedSlots
        /\ cmds[i].name = "set_boot" => ToInt(cmds[i].arg) \in CreatedSlots

\* C23 as claimed: a run that fails with "Selected space is too small" has
\* issued no table-label, no delete and no append command.
C23_RejectedBeforeTouch ==
    (pc = "error" /\ error_msg = MsgTooSmall) =>
        /\ ~Issued("mklabel")
        /\ ~Issued("delete")
        /\ ~Issued("append")

\* The number n for which the target's device is partition n of its disk.
TargetIndex ==
    {n \in Slots :
        selected_partition.device = NodeName(selected_partition.parent_disk, n)}

\* C25: for an existing partition the append command is issued only after
\* a delete command that was given the partition's number (the trailing
\* digits of its device path) and exited with status 0.
C25_DeleteBeforeAppend ==
    selected_partition.type = "partition" =>
        \A i \in DOMAIN cmds :
            cmds[i].name = "append" =>
                \E j \in 1..(i - 1) :
                    /\ cmds[j].name = "delete"
                    /\ cmds[j].ok
                    /\ \E n \in TargetIndex : cmds[j].arg = Str(n)

C25_Witness ==
    /\ selected_partition.type = "partition"
    /\ selected_partition.device = NodeName(Nvme, 2)
    /\ Succeeded("append")
    /\ pc = "done"

\* C26: on UEFI no entry of the re-read table is within tolerance of both
\* expected starts, so the devices found for EFI and for ROOT differ, the
\* two formats are given different nodes and the emitted mapping has two
\* keys.
C26_DistinctRoles ==
    boot_mode = "uefi" =>
        /\ Near(TargetStart) \cap Near(TargetStart + 1048576) = {}
        /\ new_efi_device # None => new_efi_device # new_root_device
        /\ \A i, j \in DOMAIN cmds :
             (cmds[i].name = "mkfs.vfat" /\ cmds[j].name = "mkfs.ext4") =>
                 cmds[i].arg # cmds[j].arg
        /\ Configured => Cardinality(DOMAIN partition_config) = 2

C26_Witness ==
    /\ boot_mode = "uefi"
    /\ pc = "done"
    /\ Cardinality(Near(TargetStart)) = 2
    /\ Succeeded("mkfs.vfat")
    /\ Succeeded("mkfs.ext4")
    /\ Cardinality(DOMAIN partition_config) = 2

Terminated == pc \in {"done", "error"}

\* C28: every run ends, having dispatched exactly one completion: the
\* success completion after the mapping was written and both collaborator
\* calls returned without an exception, or the error completion; a
\* completion once dispatched is never followed by another.
C28_ExactlyOneCompletion ==
    /\ <>Terminated
    /\ [](pc = "done" <=> outcome = "success")
    /\ [](pc = "error" <=> outcome = "error")
    /\ [](outcome = "success" =>
            /\ Configured
            /\ Succeeded("_save_partition_config")
            /\ Succeeded("_generate_and_apply_fstab")
            /\ \A i \in DOMAIN cmds : cmds[i].step = "CONFIGURE" => cmds[i].ok)
    /\ [][outcome # "none" => outcome' = outcome]_vars

C28_Witness ==
    /\ pc = "error"
    /\ outcome = "error"
    /\ Succeeded("_save_partition_config")
    /\ Failed("_generate_and_apply_fstab")

\* ------------------------------------------------------------------------
\* execute_template, the worker threads it starts and the UI thread's idle
\* queue
\* ------------------------------------------------------------------------
\* Calls of execute_template in one behaviour.
MaxCalls == 2
\* Callbacks waiting in the idle queue at a time.
MaxIdle == 1

\* What the worker's locals and results are while no run is modelled.
ExecutorAtRest ==
    /\ table = EmptyTable
    /\ pc = "init"
    /\ parent_disk = None
    /\ target_device = None
    /\ start_sector = 0
    /\ total_sectors_available = 0
    /\ item_type = ""
    /\ sfdisk_script = <<>>
    /\ partitions = <<>>
    /\ new_efi_device = None
    /\ new_root_device = None
    /\ cmds = <<>>
    /\ partition_config = PreviousConfig
    /\ selected_disk = None
    /\ outcome = "none"
    /\ error_msg = NoMsg

executor == <<firmware, boot_mode, selected_partition, table, pc, locals, sfdisk_script,
              ident, cmds, widget, result>>

\* A section of the worker: GLib.idle_add(self.progress_dialog.set_body,
\* text), then the blocking commands up to the next dispatch; fatal when one
\* of them can raise into the except clause.
Section(name, text, fatal) == [name |-> name, text |-> text, fatal |-> fatal]

\* The sections of the worker, in source order.
WorkerProgram(type, mode) ==
    (IF type = "wholedisk"
     THEN <<Section("label", "Initializing disk partition table...", TRUE)>>
     ELSE <<>>)
    \o (IF type = "partition"
        THEN <<Section("unmount", "Unmounting partition...", FALSE),
               Section("delete", "Removing old partition...", TRUE)>>
        ELSE <<>>)
    \o <<Section("create", "Creating new partitions...", TRUE),
         Section("sync", "Synchronizing disks...", FALSE),
         Section("identify", "Verifying partitions...", TRUE)>>
    \o (IF mode = "uefi"
        THEN <<Section("format_efi", "Formatting EFI partition...", TRUE)>>
        ELSE <<>>)
    \o <<Section("format_root", "Formatting Root partition...", TRUE),
         Section("configure", "Finalizing configuration...", TRUE)>>

Program == WorkerProgram(selected_partition.type, boot_mode)

\* Positions of a worker thread: 0 when it has returned, p in 1..Len(Program)
\* before section p, Len(Program) + 1 before the success dispatch.
Positions == 0..(Len(WorkerProgram("partition", "uefi")) + 1)

NoWorkers == [p \in Positions |-> 0]

Callback(fn, dialog, text) == [fn |-> fn, dialog |-> dialog, text |-> text]

\* self._show_progress_dialog(...) and threading.Thread(...).start()
ExecuteTemplate ==
    /\ Len(dialogs) < MaxCalls
    /\ dialogs' = Append(dialogs, [open |-> TRUE, body |-> "Preparing disk..."])
    /\ progress_dialog' = Len(dialogs) + 1
    /\ workers' = [workers EXCEPT ![1] = @ + 1]
    /\ UNCHANGED <<executor, inventory, selection, runner, idle, emitted, error_shown>>

\* Mutant of WorkerProgress: the worker calls set_body itself.
WorkerProgressDirect(text) ==
    /\ dialogs' = [dialogs EXCEPT ![progress_dialog].body = text]
    /\ UNCHANGED idle

\* GLib.idle_add(self.progress_dialog.set_body, text) on the worker thread
WorkerProgress(text) ==
    /\ idle' = Append(idle, Callback("set_body", progress_dialog, text))
    /\ UNCHANGED dialogs

\* A worker at position p moves to position q.
Move(p, q) == workers' = [workers EXCEPT ![p] = @ - 1, ![q] = @ + 1]

InSection(p) == p \in 1..Len(Program) /\ workers[p] > 0

\* The progress text is queued and the commands of the section return.
WorkerSection(p) ==
    /\ InSection(p)
    /\ Len(idle) < MaxIdle
    /\ WorkerProgress(Program[p].text)
    /\ Move(p, p + 1)
    /\ UNCHANGED <<executor, inventory, selection, runner, progress_dialog, emitted, error_shown>>

\* A command of the section fails after the progress text was queued:
\* except Exception as e: GLib.idle_add(self._finish_error, str(e))
WorkerRaise(p) ==
    /\ InSection(p)
    /\ Program[p].fatal
    /\ Len(idle) < MaxIdle
    /\ idle' = idle \o <<Callback("set_body", progress_dialog, Program[p].text),
                         Callback("_finish_error", 0, Program[p].name)>>
    /\ Move(p, 0)
    /\ UNCHANGED <<executor, inventory, selection, runner, progress_dialog, dialogs, emitted, error_shown>>

\* GLib.idle_add(self._finish_success)
WorkerSuccess ==
    /\ workers[Len(Program) + 1] > 0
    /\ Len(idle) < MaxIdle
    /\ idle' = Append(idle, Callback("_finish_success", 0, ""))
    /\ Move(Len(Program) + 1, 0)
    /\ UNCHANGED <<executor, inventory, selection, runner, progress_dialog, dialogs, emitted, error_shown>>

\* The UI thread runs the bound method dialog.set_body(text).
UiSetBody ==
    /\ idle # <<>>
    /\ Head(idle).fn = "set_body"
    /\ dialogs' = [dialogs EXCEPT ![Head(idle).dialog].body = Head(idle).text]
    /\ idle' = Tail(idle)
    /\ UNCHANGED <<executor, inventory, selection, runner, progress_dialog, workers, emitted, error_shown>>

\* self.progress_dialog.close()
Closed == [dialogs EXCEPT ![progress_dialog].open = FALSE]

\* _finish_success on the UI thread
UiFinishSuccess ==
    /\ idle # <<>>
    /\ Head(idle).fn = "_finish_success"
    /\ dialogs' = Closed
    /\ emitted' = emitted + 1
    /\ idle' = Tail(idle)
    /\ UNCHANGED <<executor, inventory, selection, runner, progress_dialog, workers, error_shown>>

\* _finish_error on the UI thread
UiFinishError ==
    /\ idle # <<>>
    /\ Head(idle).fn = "_finish_error"
    /\ dialogs' = Closed
    /\ error_shown' = error_shown + 1
    /\ idle' = Tail(idle)
    /\ UNCHANGED <<executor, inventory, selection, runner, progress_dialog, workers, emitted>>

\* One target of each type.
UiTargets ==
    {t \in Targets : t.size_sectors = GiB25 /\ t.parent_disk = Sda
                     /\ t.start_sector = 2048 /\ t.device # NodeName(Sda, 2)}

\* Hosts and selections whose programs together hold every section: an
\* existing partition on UEFI and a whole disk on Legacy.
UiHosts ==
    {h \in {"uefi", "legacy"} \X UiTargets :
        \/ h[1] = "uefi" /\ h[2].type = "partition"
        \/ h[1] = "legacy" /\ h[2].type = "wholedisk"}

InitUi ==
    /\ \E h \in UiHosts : boot_mode = h[1] /\ selected_partition = h[2]
    /\ firmware = (IF boot_mode = "uefi" THEN "present" ELSE "absent")
    /\ ExecutorAtRest
    /\ progress_dialog = 0
    /\ dialogs = <<>>
    /\ workers = NoWorkers
    /\ idle = <<>>
    /\ emitted = 0
    /\ error_shown = 0
    /\ InventoryAtRest
    /\ SelectionAtRest
    /\ RunnerAtRest

OnUiThread == ExecuteTemplate \/ UiSetBody \/ UiFinishSuccess \/ UiFinishError

NextUi ==
    \/ ExecuteTemplate
    \/ \E p \in Positions : WorkerSection(p)
    \/ \E p \in Positions : WorkerRaise(p)
    \/ WorkerSuccess
    \/ UiSetBody
    \/ UiFinishSuccess
    \/ UiFinishError

SpecUi == InitUi /\ [][NextUi]_vars

RECURSIVE WorkersFrom(_)
WorkersFrom(p) ==
    IF p > Len(Program) + 1 THEN 0 ELSE workers[p] + WorkersFrom(p + 1)

\* The number of workers that have run the commands of a section and have
\* not returned.
Mutating == WorkersFrom(2)

\* C16 as claimed: after any sequence of execute_template calls at most one
\* worker is mutating the device at any time.
C16_AtMostOneWorker == Mutating <= 1

\* C17: presentation state (the progress dialogs' body and open flag, the
\* error dialog, the continue-to-next-page emission) changes only in steps
\* of the UI thread: execute_template and the callbacks run from the idle
\* queue; the worker only queues callbacks.
C17_PresentationOnUiThread ==
    [][(dialogs' # dialogs \/ emitted' # emitted \/ error_shown' # error_shown)
            => OnUiThread]_vars

C17_Witness ==
    /\ Len(dialogs) = 1
    /\ dialogs[1].body = "Finalizing configuration..."
    /\ ~dialogs[1].open
    /\ emitted = 1


\* ------------------------------------------------------------------------
\* The inventory, _detect_partitions
\* ------------------------------------------------------------------------
\* Partitions of one disk in the lsblk tree.
MaxChildren == 2
\* Free rows 'parted print free' reports for one disk.
MaxGaps == 2

\* if size_mb >= 256
MIN_FREE_MB == 256
\* if self.selected_partition['size_gb'] < 25
MIN_TARGET_GB == 25

SectorsPerMb == (1024 * 1024) \div 512
SectorsPerGb == (1024 * 1024 * 1024) \div 512

\* size_bytes // (1024**3) with size_bytes = 512 * sectors
SizeGb(sectors) == sectors \div SectorsPerGb

\* (size_sectors * 512) // (1024**2)
SizeMb(sectors) == sectors \div SectorsPerMb

\* str(n) in decimal, the form of parted's start and size columns
RECURSIVE Decimal(_)
Decimal(n) ==
    IF n < 10 THEN <<DigitChars[n + 1]>>
    ELSE Decimal(n \div 10) \o <<DigitChars[(n % 10) + 1]>>

RECURSIVE SeqSum(_)
SeqSum(q) == IF q = <<>> THEN 0 ELSE q[1] + SeqSum(Tail(q))

\* Sequences of at most n elements of S.
SeqsUpTo(S, n) == UNION {[1..k -> S] : k \in 0..n}

\* Sizes of partitions and blank disks on both sides of 25 GB, in sectors.
InvSizes == {GiB25 - 1, GiB25}

\* Sizes of gaps on both sides of 256 MB, in sectors.
GapSizes == {MIN_FREE_MB * SectorsPerMb - 1, MIN_FREE_MB * SectorsPerMb}

\* A node of lsblk's JSON tree; children is <<>> when the key is absent.
Node(type, name, size, start, children) ==
    [type |-> type, name |-> name, size |-> size, start |-> start,
     children |-> children]

\* The partitions of a disk lie one after the other from sector 2048.
PartNodes(disk, sizes) ==
    [i \in 1..Len(sizes) |->
        Node("part", NodeName(disk, i), sizes[i],
             WHOLEDISK_START + SeqSum(SubSeq(sizes, 1, i - 1)), <<>>)]

\* A disk without partitions, or with up to MaxChildren of them.
DiskNodes(disk) ==
    {Node("disk", disk, s, 0, <<>>) : s \in InvSizes}
    \cup {Node("disk", disk,
               WHOLEDISK_START + SeqSum(sizes) + SeqSum([g \in 1..MaxGaps |->
                    MIN_FREE_MB * SectorsPerMb]) + GPT_OVERHEAD,
               0, PartNodes(disk, sizes)) :
            sizes \in SeqsUpTo(InvSizes, MaxChildren) \ {<<>>}}

\* An optical drive: a top-level node that is not of type 'disk'.
RomNode == Node("rom", <<"s", "r", "0">>, 0, 0, <<>>)

Optional(S) == {<<>>} \cup {<<x>> : x \in S}

\* 'blockdevices' of a listing that parsed.
BlockDevices ==
    {<<RomNode>> \o a \o b :
        a \in Optional(DiskNodes(Sda)), b \in Optional(DiskNodes(Nvme))}

\* What subprocess.run(['lsblk', ...], timeout=10) and json.loads can do:
\* raise (timeout, missing binary), exit non-zero, print no JSON, or list.
LsblkResults ==
    {[status |-> st, blockdevices |-> <<>>] :
        st \in {"raises", "nonzero", "badjson"}}
    \cup {[status |-> "ok", blockdevices |-> b] : b \in BlockDevices}

\* What a stretch of the function adds: entries of self.partitions and
\* lines of the log.
Out(targets, lines) == [targets |-> targets, lines |-> lines]

Join(a, b) == Out(a.targets \o b.targets, a.lines \o b.lines)

Line(msg, about) == [msg |-> msg, about |-> about]

\* The entry appended to self.partitions.
Target(type, device, sectors, start, disk) ==
    [type |-> type, device |-> device, size_gb |-> SizeGb(sectors),
     size_sectors |-> sectors, start_sector |-> start, parent_disk |-> disk]

\* has_partitions: some child of the disk is of type 'part'
HasPartitions(node) ==
    \E i \in DOMAIN node.children : node.children[i].type = "part"

\* _process_node: a disk without partitions is appended as a whole disk, a
\* partition is appended as a partition, whatever their sizes; then the
\* children are processed with the disk as their parent.
RECURSIVE ProcessNode(_, _), ProcessAll(_, _)
ProcessNode(node, root_parent_disk) ==
    LET root == IF node.type = "disk" /\ root_parent_disk = None
                THEN node.name ELSE root_parent_disk
        disk == IF node.type = "disk"
                THEN Out(<<>>, <<Line("Found disk", node.name)>>)
                ELSE Out(<<>>, <<>>)
        whole == IF node.type = "disk" /\ ~HasPartitions(node)
                 THEN Out(<<Target("wholedisk", node.name, node.size,
                                   WHOLEDISK_START, node.name)>>,
                          <<Line("ACCEPTED Whole Disk", node.name)>>)
                 ELSE Out(<<>>, <<>>)
        part == IF node.type = "part"
                THEN Out(<<Target("partition", node.name, node.size,
                                  node.start, root)>>,
                         <<Line("ACCEPTED", node.name)>>)
                ELSE Out(<<>>, <<>>)
    IN  Join(Join(disk, whole), Join(part, ProcessAll(node.children, root)))

ProcessAll(nodes, root_parent_disk) ==
    IF nodes = <<>> THEN Out(<<>>, <<>>)
    ELSE Join(ProcessNode(nodes[1], root_parent_disk),
              ProcessAll(Tail(nodes), root_parent_disk))

\* parent_disks after the tree was processed
FoundDisks(nodes) ==
    {nodes[i].name : i \in {j \in DOMAIN nodes : nodes[j].type = "disk"}}

DiskNode(nodes, d) ==
    nodes[CHOOSE i \in DOMAIN nodes : nodes[i].type = "disk" /\ nodes[i].name = d]

\* A row of 'parted -m <disk> unit s print free': start, size and the
\* filesystem column, which reads 'free' for a gap.
Row(fs, start, size) == [fs |-> fs, start |-> start, size |-> size]

\* The rows of a disk: its partitions, then the gaps after them.
Rows(node, gaps) ==
    LET used == WHOLEDISK_START
                + SeqSum([i \in DOMAIN node.children |-> node.children[i].size])
    IN  [i \in DOMAIN node.children |->
            Row("ext4", node.children[i].start, node.children[i].size)]
        \o [i \in 1..Len(gaps) |->
            Row("free", used + SeqSum(SubSeq(gaps, 1, i - 1)), gaps[i])]

\* What subprocess.run(['sudo', 'parted', ...]) can do for a disk: raise,
\* exit non-zero (no table on the disk, sudo refused), or print rows.
ScanResults(node) ==
    {[status |-> st, rows |-> <<>>] : st \in {"raises", "nonzero"}}
    \cup {[status |-> "ok", rows |-> Rows(node, gaps)] :
            gaps \in SeqsUpTo(GapSizes, MaxGaps)}

\* Mutant of Meaningful: every gap is offered.
MeaningfulAlways(size_mb) == size_mb >= 0

\* if size_mb >= 256
Meaningful(size_mb) == size_mb >= MIN_FREE_MB

\* The loop over the rows of one disk.
RECURSIVE ScanRows(_, _)
ScanRows(disk, rows) ==
    IF rows = <<>> THEN Out(<<>>, <<>>)
    ELSE LET row == rows[1]
             one == IF row.fs # "free" THEN Out(<<>>, <<>>)
                    ELSE IF Meaningful(SizeMb(row.size))
                    THEN Out(<<Target("freespace", UnallocatedSpace, row.size,
                                      Decimal(row.start), disk)>>,
                             <<Line("Checking Free Space", disk),
                               Line("ACCEPTED Free Space", disk)>>)
                    ELSE Out(<<>>, <<Line("Checking Free Space", disk),
                                     Line("REJECTED Free Space", disk)>>)
         IN  Join(one, ScanRows(disk, Tail(rows)))

\* The body of 'for parent_disk in parent_disks': a non-zero exit of parted
\* skips the disk without a line; an exception is caught and logged.
ScanOut(disk, r) ==
    Join(Out(<<>>, <<Line("Scanning free space", disk)>>),
         CASE r.status = "ok" -> ScanRows(disk, r.rows)
           [] r.status = "nonzero" -> Out(<<>>, <<>>)
           [] r.status = "raises" ->
                Out(<<>>, <<Line("Failed to scan free space", disk)>>))

\* _detect_partitions is entered, from __init__ or from refresh:
\* self.partitions = [] and the log file is opened for writing.
DetectPartitions ==
    /\ inv_pc \in {"init", "done"}
    /\ inv_pc' = "lsblk"
    /\ self_partitions' = <<>>
    /\ parent_disks' = {}
    /\ lsblk' = NoProcess
    /\ parted' = <<>>
    /\ log' = <<Line("--- Starting Partition Detection ---", None)>>
    /\ UNCHANGED <<executor, ui, selection, runner>>

\* The outcome of the listing, by the branch of lines 394-403 or the except
\* clause at 453 it reaches.
LsblkOut(p) ==
    CASE p.status = "ok" -> ProcessAll(p.blockdevices, None)
      [] p.status = "badjson" -> Out(<<>>, <<Line("JSON Decode Error", None)>>)
      [] p.status = "nonzero" -> Out(<<>>, <<Line("lsblk failed", None)>>)
      [] p.status = "raises" -> Out(<<>>, <<Line("Error in detection", None)>>)

\* lsblk is run and its tree is processed.
RunLsblk ==
    /\ inv_pc = "lsblk"
    /\ \E p \in LsblkResults :
        /\ lsblk' = p
        /\ self_partitions' = self_partitions \o LsblkOut(p).targets
        /\ log' = log \o <<Line("Running: lsblk", None)>> \o LsblkOut(p).lines
        /\ parent_disks' = FoundDisks(p.blockdevices)
        /\ inv_pc' = IF FoundDisks(p.blockdevices) = {} THEN "done" ELSE "scan"
    /\ UNCHANGED <<executor, ui, selection, runner, parted>>

\* One more disk of parent_disks is scanned for free space; a set is
\* iterated in no particular order.
ScanFreeSpace ==
    /\ inv_pc = "scan"
    /\ \E d \in parent_disks \ DOMAIN parted :
       \E r \in ScanResults(DiskNode(lsblk.blockdevices, d)) :
        /\ parted' = [x \in DOMAIN parted \cup {d} |->
                        IF x = d THEN r ELSE parted[x]]
        /\ self_partitions' = self_partitions \o ScanOut(d, r).targets
        /\ log' = log \o ScanOut(d, r).lines
        /\ inv_pc' = IF DOMAIN parted \cup {d} = parent_disks
                     THEN "done" ELSE "scan"
    /\ UNCHANGED <<executor, ui, selection, runner, parent_disks, lsblk>>

InitInv ==
    /\ firmware = "present"
    /\ boot_mode = ""
    /\ selected_partition = None
    /\ ExecutorAtRest
    /\ progress_dialog = 0
    /\ dialogs = <<>>
    /\ workers = NoWorkers
    /\ idle = <<>>
    /\ emitted = 0
    /\ error_shown = 0
    /\ InventoryAtRest
    /\ SelectionAtRest
    /\ RunnerAtRest

NextInv == DetectPartitions \/ RunLsblk \/ ScanFreeSpace

SpecInv == InitInv /\ [][NextInv]_vars

\* The line was written to the log.
Logged(msg, about) == \E i \in DOMAIN log : log[i] = Line(msg, about)

Detected == inv_pc = "done"

\* C18 as claimed: when the listing fails (non-zero exit, unparsable
\* output, timeout or another exception) detection ends with an empty
\* target list, and a free-space scan that fails for a disk is logged.
C18_FailSoftAndLogged ==
    Detected =>
        /\ lsblk.status # "ok" => self_partitions = <<>>
        /\ \A d \in DOMAIN parted :
                parted[d].status # "ok" => Logged("Failed to scan free space", d)

\* C19 as claimed: every offered partition and whole disk has at least
\* 25 GB and every offered free-space region at least 256 MB.
C19_MinimumSizes ==
    \A i \in DOMAIN self_partitions :
        LET t == self_partitions[i]
        IN  /\ t.type \in {"partition", "wholedisk"} => t.size_gb >= MIN_TARGET_GB
            /\ t.type = "freespace" => SizeMb(t.size_sectors) >= MIN_FREE_MB

\* The offered targets of a type on a disk.
Offered(type, d) ==
    {i \in DOMAIN self_partitions :
        self_partitions[i].type = type /\ self_partitions[i].parent_disk = d}

\* The disks of the listing.
ListedDisks ==
    {lsblk.blockdevices[i] :
        i \in {j \in DOMAIN lsblk.blockdevices :
                lsblk.blockdevices[j].type = "disk"}}

\* The gaps the scan of a disk reported.
ReportedGaps(d) ==
    IF d \in DOMAIN parted
    THEN {i \in DOMAIN parted[d].rows : parted[d].rows[i].fs = "free"}
    ELSE {}

\* Whole disk if and only if the disk has no partition; one partition
\* target per partition; one free-space target per gap in gaps(d).
PerDisk(gaps(_)) ==
    (Detected /\ lsblk.status = "ok") =>
        \A node \in ListedDisks :
            LET d == node.name
                n == Len(node.children)
            IN  /\ Cardinality(Offered("wholedisk", d)) = (IF n = 0 THEN 1 ELSE 0)
                /\ Cardinality(Offered("partition", d)) = n
                /\ \A c \in DOMAIN node.children :
                     \E i \in Offered("partition", d) :
                        /\ self_partitions[i].device = node.children[c].name
                        /\ self_partitions[i].size_sectors = node.children[c].size
                        /\ self_partitions[i].start_sector = node.children[c].start
                /\ n > 0 => Cardinality(Offered("freespace", d))
                                = Cardinality(gaps(d))

\* C20 as claimed: one free-space target per reported gap.
C20_Original == PerDisk(ReportedGaps)

\* The reported gaps of at least 256 MB (512 * size >= 256 * 1024 * 1024).
LargeGaps(d) ==
    {i \in ReportedGaps(d) : 512 * parted[d].rows[i].size >= 256 * 1024 * 1024}

\* C20: a disk is offered as a whole disk exactly when the listing shows no
\* partition on it; a disk with partitions yields one partition target per
\* partition, no whole-disk target, and one free-space target per gap of
\* at least 256 MB that a scan of the disk ending with exit status 0
\* reported.
C20_TargetsPerDisk == PerDisk(LargeGaps)

C20_Witness ==
    /\ Detected
    /\ \E node \in ListedDisks :
        /\ Len(node.children) = 2
        /\ Cardinality(ReportedGaps(node.name)) = 2
        /\ Cardinality(LargeGaps(node.name)) = 1
        /\ Cardinality(Offered("freespace", node.name)) = 1
        /\ Cardinality(Offered("wholedisk", node.name)) = 0
    /\ \E node \in ListedDisks :
        /\ Len(node.children) = 0
        /\ Cardinality(Offered("wholedisk", node.name)) = 1

\* ------------------------------------------------------------------------
\* The selection: cards, refresh, Continue and the worker's reads
\* ------------------------------------------------------------------------

\* Python's None, told from a target by its having no keys.
IsNone(x) == DOMAIN x = {}

MsgTypeError ==
    [text |-> "'NoneType' object is not subscriptable", cmd |-> "", stderr |-> FALSE]

MsgAttributeError ==
    [text |-> "'NoneType' object has no attribute 'get'", cmd |-> "", stderr |-> FALSE]

\* A disk with a partition of 25 GB, one just under it and a gap of 25 GB.
SdaNode ==
    Node("disk", Sda, WHOLEDISK_START + 3 * GiB25 + GPT_OVERHEAD, 0,
         PartNodes(Sda, <<GiB25, GiB25 - 1>>))

\* The lists _detect_partitions can leave in self.partitions: nothing, the
\* targets of sda, and a blank nvme disk as a whole-disk target.
CardLists ==
    { <<>>,
      ProcessAll(<<SdaNode>>, None).targets
          \o ScanRows(Sda, Rows(SdaNode, <<GiB25>>)).targets,
      ProcessAll(<<Node("disk", Nvme, GiB25, 0, <<>>)>>, None).targets }

\* Mutant of Selectable: every target enables Continue.
SelectableAny(t) == TRUE

\* if self.selected_partition['size_gb'] < 25: ... return
Selectable(t) == t.size_gb >= MIN_TARGET_GB

\* _on_partition_card_clicked for the i-th card; the cards are behind the
\* modal progress dialog once execute_template has been called.
OnPartitionCardClicked(i) ==
    /\ pc = "init"
    /\ selected_partition' = self_partitions[i]
    /\ selected_disk' = self_partitions[i].parent_disk
    /\ btn_proceed' = Selectable(self_partitions[i])
    /\ UNCHANGED <<firmware, boot_mode, table, pc, locals, sfdisk_script, ident,
                   cmds, partition_config, result, ui, confirmed, inventory, runner>>

\* refresh, from _on_map or _restore_and_refresh: the selection is cleared,
\* Continue is disabled, and the cards are rebuilt from a new detection.
Refresh ==
    /\ selected_partition' = None
    /\ selected_disk' = None
    /\ btn_proceed' = FALSE
    /\ self_partitions' \in CardLists
    /\ UNCHANGED <<firmware, boot_mode, table, pc, locals, sfdisk_script, ident,
                   cmds, partition_config, result, ui, confirmed, runner,
                   inv_pc, parent_disks, lsblk, parted, log>>

\* on_continue_clicked: 'template-selected' is emitted for the selection;
\* the button takes clicks only while it is sensitive.
OnContinueClicked ==
    /\ pc = "init"
    /\ btn_proceed
    /\ confirmed' = selected_partition
    /\ UNCHANGED <<executor, ui, inventory, btn_proceed, runner>>

\* execute_template, called by the wizard for a confirmed selection: the
\* thread is started without arguments taken from the selection.
StartThread ==
    /\ pc = "init"
    /\ ~IsNone(confirmed)
    /\ pc' = "parent_disk"
    /\ UNCHANGED <<host, boot_mode, table, locals, sfdisk_script, ident, cmds,
                   widget, result>>

\* int(self.selected_partition['start_sector']): lsblk gives a number,
\* the free-space scan kept parted's column as a string.
StartSector(t) ==
    IF t.type = "freespace" THEN ToInt(t.start_sector) ELSE t.start_sector

\* One of the worker's reads of self.selected_partition: subscripting None
\* raises TypeError, None.get raises AttributeError, into the except clause.
ReadSelection(at, next) ==
    /\ pc = at
    /\ boot_mode' = IF at = "parent_disk" THEN DetectBootMode(firmware) ELSE boot_mode
    /\ IF IsNone(selected_partition)
       THEN /\ Raise(IF at = "type" THEN MsgAttributeError ELSE MsgTypeError)
            /\ UNCHANGED locals
       ELSE /\ pc' = next
            /\ parent_disk' =
                   IF at = "parent_disk" THEN selected_partition.parent_disk
                   ELSE parent_disk
            /\ target_device' =
                   IF at = "device" THEN selected_partition.device
                   ELSE target_device
            /\ start_sector' =
                   IF at = "start_sector" THEN StartSector(selected_partition)
                   ELSE start_sector
            /\ total_sectors_available' =
                   IF at = "size_sectors" THEN selected_partition.size_sectors
                   ELSE total_sectors_available
            /\ item_type' =
                   IF at = "type" THEN selected_partition.type
                   ELSE item_type
            /\ UNCHANGED result
    /\ UNCHANGED <<host, table, sfdisk_script, ident, cmds, widget>>

\* lines 584-593 of the worker, one read after the other
ReadParentDisk == ReadSelection("parent_disk", "device")
ReadDevice == ReadSelection("device", "start_sector")
ReadStartSector == ReadSelection("start_sector", "size_sectors")
ReadSizeSectors == ReadSelection("size_sectors", "type")
ReadType == ReadSelection("type", "label")

\* After __init__: nothing selected, Continue disabled, the cards of the
\* first detection on the page.
InitSel ==
    /\ firmware = "present"
    /\ boot_mode = ""
    /\ selected_partition = None
    /\ ExecutorAtRest
    /\ progress_dialog = 0
    /\ dialogs = <<>>
    /\ workers = NoWorkers
    /\ idle = <<>>
    /\ emitted = 0
    /\ error_shown = 0
    /\ inv_pc = "done"
    /\ self_partitions \in CardLists
    /\ parent_disks = {}
    /\ lsblk = NoProcess
    /\ parted = <<>>
    /\ log = <<>>
    /\ SelectionAtRest
    /\ RunnerAtRest

NextSel ==
    \/ \E i \in DOMAIN self_partitions : OnPartitionCardClicked(i)
    \/ Refresh
    \/ OnContinueClicked
    \/ StartThread
    \/ ReadParentDisk
    \/ ReadDevice
    \/ ReadStartSector
    \/ ReadSizeSectors
    \/ ReadType

SpecSel == InitSel /\ [][NextSel]_vars

\* The worker has taken its five values and goes on to change the disk.
SnapshotTaken == pc = "label"

\* C24 as claimed: the parent disk, device, start sector, size and type a
\* run uses all belong to the target the user confirmed, whatever refresh
\* or a card click did to the selection after the confirmation.
C24_ConsistentSnapshot ==
    SnapshotTaken =>
        /\ parent_disk = confirmed.parent_disk
        /\ target_device = confirmed.device
        /\ start_sector = StartSector(confirmed)
        /\ total_sectors_available = confirmed.size_sectors
        /\ item_type = confirmed.type

\* C27: Continue is enabled exactly while a target is selected and its size
\* is at least 25 GB (GiB25 sectors of 512 bytes); after refresh and after a
\* click on an undersized target it is disabled.
C27_ContinueNeedsTarget ==
    btn_proceed <=>
        /\ ~IsNone(selected_partition)
        /\ selected_partition.size_sectors >= 52428800

\* An undersized card was clicked after Continue had been enabled and
\* confirmed: the selection is there and the button is disabled.
C27_Witness ==
    /\ ~IsNone(selected_partition)
    /\ selected_partition.size_sectors < 52428800
    /\ ~IsNone(confirmed)
    /\ ~btn_proceed

\* ------------------------------------------------------------------------
\* The installation runner (installation_widget.py)
\* ------------------------------------------------------------------------

\* The longest list of steps of a run.
MaxSteps == 3

\* installation_steps as _run_installation sees it: for each step whether
\* it is critical (InstallationStep.critical).
StepLists == UNION {[1..n -> BOOLEAN] : n \in 1..MaxSteps}

\* A line put on output_queue for a step: the command line, "Step failed",
\* "Warning: Non-critical step failed", "completed successfully" or
\* "Error executing step", with the tag it is put with.
QueueLine(i, kind) ==
    [step |-> i, kind |-> kind,
     tag |-> CASE kind = "command" -> "command"
               [] kind = "failed" -> "error"
               [] kind = "warning" -> "info"
               [] kind = "success" -> "success"
               [] kind = "exception" -> "error"]

\* Mutant of OnFailure: the run goes on after every failure.
OnFailureContinue(critical) == "finalize"

\* if step.critical: GLib.idle_add(self._on_installation_error, ...); return
OnFailure(critical) == IF critical THEN "returned" ELSE "finalize"

\* start_installation: refused while RUNNING; the steps are set, the state
\* is RUNNING, should_cancel is cleared and the thread is started. One run
\* of the thread is followed.
StartInstallation ==
    /\ state # "running"
    /\ run_pc = "none"
    /\ installation_steps' \in StepLists
    /\ state' = "running"
    /\ should_cancel' = FALSE
    /\ run_pc' = "top"
    /\ run_i' = 1
    /\ UNCHANGED <<executor, ui, inventory, selection, returncode, run_idle,
                   output_queue, started, cancel_dialog, cancel_while_running>>

\* The head of the for loop: after the last step _on_installation_complete
\* is dispatched; before a step should_cancel is tested.
LoopTop ==
    /\ run_pc = "top"
    /\ IF run_i > Len(installation_steps)
       THEN /\ run_idle' = Append(run_idle, "complete")
            /\ run_pc' = "returned"
       ELSE IF should_cancel
       THEN /\ run_idle' = Append(run_idle, "cancelled")
            /\ run_pc' = "returned"
       ELSE /\ run_pc' = "launch"
            /\ UNCHANGED run_idle
    /\ UNCHANGED <<executor, ui, inventory, selection, state, installation_steps,
                   should_cancel, run_i, returncode, output_queue, started,
                   cancel_dialog, cancel_while_running>>

\* The command line is queued and subprocess.Popen is called; when it
\* raises, the except clause queues the error line and stops the run for a
\* critical step.
Launch ==
    /\ run_pc = "launch"
    /\ started' = Append(started, run_i)
    /\ returncode' = "none"
    /\ \E raised \in BOOLEAN :
         IF raised
         THEN /\ output_queue' = output_queue \o <<QueueLine(run_i, "command"),
                                                  QueueLine(run_i, "exception")>>
              /\ run_pc' = OnFailure(installation_steps[run_i])
              /\ run_idle' = IF OnFailure(installation_steps[run_i]) = "returned"
                             THEN Append(run_idle, "error") ELSE run_idle
         ELSE /\ output_queue' = Append(output_queue, QueueLine(run_i, "command"))
              /\ run_pc' = "reading"
              /\ UNCHANGED run_idle
    /\ UNCHANGED <<executor, ui, inventory, selection, state, installation_steps,
                   should_cancel, run_i, cancel_dialog, cancel_while_running>>

\* One pass of 'while True': should_cancel is tested, then a line is read
\* and the process polled. A pass that finds the process running leaves
\* the state as it is; the pass that finds it finished leaves the loop.
ReadOutput ==
    /\ run_pc = "reading"
    /\ IF should_cancel
       THEN /\ run_idle' = Append(run_idle, "cancelled")
            /\ run_pc' = "returned"
            /\ UNCHANGED returncode
       ELSE /\ returncode' \in {"zero", "nonzero"}
            /\ run_pc' = "exited"
            /\ UNCHANGED run_idle
    /\ UNCHANGED <<executor, ui, inventory, selection, state, installation_steps,
                   should_cancel, run_i, output_queue, started, cancel_dialog,
                   cancel_while_running>>

\* process.communicate() and the test of the return code
CheckReturnCode ==
    /\ run_pc = "exited"
    /\ IF returncode = "zero"
       THEN /\ output_queue' = Append(output_queue, QueueLine(run_i, "success"))
            /\ run_pc' = "finalize"
            /\ UNCHANGED run_idle
       ELSE /\ run_pc' = OnFailure(installation_steps[run_i])
            /\ IF OnFailure(installation_steps[run_i]) = "returned"
               THEN /\ output_queue' = Append(output_queue, QueueLine(run_i, "failed"))
                    /\ run_idle' = Append(run_idle, "error")
               ELSE /\ output_queue' = Append(output_queue, QueueLine(run_i, "warning"))
                    /\ UNCHANGED run_idle
    /\ UNCHANGED <<executor, ui, inventory, selection, state, installation_steps,
                   should_cancel, run_i, returncode, started, cancel_dialog,
                   cancel_while_running>>

\* The progress is dispatched, the thread sleeps and takes the next step.
Finalize ==
    /\ run_pc = "finalize"
    /\ run_i' = run_i + 1
    /\ run_pc' = "top"
    /\ UNCHANGED <<executor, ui, inventory, selection, state, installation_steps,
                   should_cancel, returncode, run_idle, output_queue, started,
                   cancel_dialog, cancel_while_running>>

StateAfter(callback) ==
    CASE callback = "complete" -> "success"
      [] callback = "error" -> "error"
      [] callback = "cancelled" -> "cancelled"

\* The main loop runs _on_installation_complete, _on_installation_error or
\* _on_installation_cancelled.
RunnerIdle ==
    /\ run_idle # <<>>
    /\ state' = StateAfter(Head(run_idle))
    /\ run_idle' = Tail(run_idle)
    /\ UNCHANGED <<executor, ui, inventory, selection, installation_steps,
                   should_cancel, run_pc, run_i, returncode, output_queue, started,
                   cancel_dialog, cancel_while_running>>

\* _on_cancel_clicked: the dialog is shown only while RUNNING; the button
\* is insensitive once 'stop' was answered.
OnCancelClicked ==
    /\ state = "running"
    /\ ~should_cancel
    /\ ~cancel_dialog
    /\ cancel_dialog' = TRUE
    /\ UNCHANGED <<executor, ui, inventory, selection, state, installation_steps,
                   should_cancel, run_pc, run_i, returncode, run_idle, output_queue,
                   started, cancel_while_running>>

\* _on_cancel_confirmed: 'stop' sets should_cancel, whatever the state is.
OnCancelConfirmed(response) ==
    /\ cancel_dialog
    /\ cancel_dialog' = FALSE
    /\ should_cancel' = (should_cancel \/ response = "stop")
    /\ cancel_while_running' =
           (cancel_while_running \/ (response = "stop" /\ state = "running"))
    /\ UNCHANGED <<executor, ui, inventory, selection, state, installation_steps,
                   run_pc, run_i, returncode, run_idle, output_queue, started>>

InitRun ==
    /\ firmware = "present"
    /\ boot_mode = ""
    /\ selected_partition = None
    /\ ExecutorAtRest
    /\ progress_dialog = 0
    /\ dialogs = <<>>
    /\ workers = NoWorkers
    /\ idle = <<>>
    /\ emitted = 0
    /\ error_shown = 0
    /\ InventoryAtRest
    /\ SelectionAtRest
    /\ RunnerAtRest

NextRun ==
    \/ StartInstallation
    \/ LoopTop
    \/ Launch
    \/ ReadOutput
    \/ CheckReturnCode
    \/ Finalize
    \/ RunnerIdle
    \/ OnCancelClicked
    \/ \E response \in {"cancel", "stop"} : OnCancelConfirmed(response)

SpecRun == InitRun /\ [][NextRun]_vars

\* The line of that kind was queued for step i.
HasLine(i, kind) ==
    \E k \in DOMAIN output_queue : output_queue[k] = QueueLine(i, kind)

\* The last step for which Popen was called, 0 before the first.
LastStarted == Len(started)

\* The last started step exited with a non-zero status and the test of the
\* return code has run.
NonZeroExit ==
    /\ LastStarted > 0
    /\ returncode = "nonzero"
    /\ run_pc # "exited"

\* Popen raised for step i: the except clause always queues its line.
LaunchRaised(i) == HasLine(i, "exception")

\* A critical step failed, by its exit status or at its launch.
CriticalFailure ==
    \/ NonZeroExit /\ installation_steps[LastStarted]
    \/ \E i \in DOMAIN installation_steps : LaunchRaised(i) /\ installation_steps[i]

\* _on_installation_error is dispatched or has run.
ErrorDispatched ==
    \/ state = "error"
    \/ \E k \in DOMAIN run_idle : run_idle[k] = "error"

\* Steps are started in list order, each after the one before it has ended
\* without a critical failure.
InListOrder ==
    /\ started = [k \in 1..LastStarted |-> k]
    /\ \A j \in 1..(LastStarted - 1) :
         /\ HasLine(j, "success") \/ HasLine(j, "warning") \/ LaunchRaised(j)
         /\ ~HasLine(j, "failed")
         /\ LaunchRaised(j) => ~installation_steps[j]

\* A critical failure ends the run at that step: the thread has returned,
\* no later step was started, the state is ERROR once the callback has
\* run and is never SUCCESS; and only a critical failure leads to ERROR.
CriticalStops ==
    /\ CriticalFailure =>
         /\ run_pc = "returned"
         /\ NonZeroExit => HasLine(LastStarted, "failed")
         /\ \A i \in DOMAIN installation_steps :
                LaunchRaised(i) /\ installation_steps[i] => i = LastStarted
         /\ state \in {"running", "error"}
         /\ state = "running" => run_idle = <<"error">>
    /\ ErrorDispatched => CriticalFailure

\* The run goes on after a failure of a non-critical step: the thread
\* returns before the last step only after a critical failure or a
\* cancellation.
NonCriticalGoesOn ==
    run_pc = "returned" /\ LastStarted < Len(installation_steps)
        => ErrorDispatched \/ should_cancel

\* C29 as claimed: steps run one at a time in list order; a non-zero exit
\* or a launch exception of a critical step stops the run in ERROR; every
\* failure of a non-critical step, by exit status or at launch, is logged
\* as a warning and the run goes on.
C29_Original ==
    /\ InListOrder
    /\ CriticalStops
    /\ NonCriticalGoesOn
    /\ NonZeroExit /\ ~installation_steps[LastStarted]
           => HasLine(LastStarted, "warning")
    /\ \A i \in DOMAIN installation_steps :
           LaunchRaised(i) /\ ~installation_steps[i] => HasLine(i, "warning")

\* C29, amended: steps run one at a time in list order; a non-zero exit or
\* a launch exception of a critical step stops the run in ERROR; a non-zero
\* exit of a non-critical step is logged as a warning, a launch exception
\* of a non-critical step is logged as an error line without a warning,
\* and in both cases the run goes on.
C29_CriticalStopsRun ==
    /\ InListOrder
    /\ CriticalStops
    /\ NonCriticalGoesOn
    /\ NonZeroExit /\ ~installation_steps[LastStarted]
           => HasLine(LastStarted, "warning")
    /\ \A i \in DOMAIN installation_steps :
           LaunchRaised(i) /\ ~installation_steps[i]
               => /\ QueueLine(i, "exception").tag = "error"
                  /\ ~HasLine(i, "warning")

\* The launch of the non-critical first step raised, the second step was
\* started and failed as a critical step: the run ended in ERROR at step 2.
C29_Witness ==
    /\ Len(installation_steps) = 3
    /\ LaunchRaised(1)
    /\ ~installation_steps[1]
    /\ started = <<1, 2>>
    /\ HasLine(2, "failed")
    /\ state = "error"

\* C30 as claimed: once 'stop' was answered while the state was RUNNING,
\* the run does not end in SUCCESS or ERROR.
C30_CancelledNotCompleted ==
    cancel_while_running => state \notin {"success", "error"}

====
